---- MODULE Spec2Model ----
(***************************************************************************)
(* A model of internal/app/state.go of helmsman: the desired-state        *)
(* validation pipeline (validate, isValidCert), the concurrent chart      *)
(* validator (validateReleaseCharts) and target resolution (makeTargetMap,*)
(* disableUntargettedApps).                                                *)
(*                                                                         *)
(* Strings the code inspects character by character (url.ParseRequestURI, *)
(* strings.HasPrefix) are sequences of one-character strings.             *)
(***************************************************************************)
EXTENDS Integers, Sequences, FiniteSets, TLC

VARIABLES
    fs,          \* the local filesystem: the set of paths os.Stat finds
    certValue,   \* the argument of a call of isValidCert
    certResult,  \* what that call returned: <<ok, path>>, or <<>> before it
    \* --- target resolution (makeTargetMap, disableUntargettedApps) ---
    appGroup,    \* s.Apps[name].Group
    appNs,       \* s.Apps[name].Namespace
    appDisabled, \* the flag release.Disable() sets, per release
    nsDisabled,  \* the flag namespace.Disable() sets, per namespace
    TargetMap,   \* s.TargetMap: release name -> bool (nil is the empty map)
    groups,      \* the run's group selectors (flags.group)
    targets,     \* the run's release-name selectors (flags.target)
    lastOp,      \* the operation that ran last
    fresh,       \* TargetMap is the result of one makeTargetMap call on an
                 \* empty TargetMap
    \* --- the validation pipeline (validate) ---
    doc,         \* the document: Settings, Certificates, Namespaces,
                 \* HelmRepos, Apps
    env,         \* what validate reads outside the document: getKubeContext()
                 \* and flags.nsOverride
    pc,          \* where validate is: "idle", a stage, "returned", "exit0"
    err,         \* the error validate returned (NoError: nil)
    ran,         \* the stages that ran, in order
    certWrites,  \* the keys line 152 assigned in s.Certificates
    names,       \* the duplicate tracker of line 199: namespace -> names seen
    visited,     \* the labels the per-release validator was invoked for
    calls,       \* the calls of validate on the document so far
    \* --- the concurrent chart validator (validateReleaseCharts) ---
    rel,         \* s.Apps: label -> [Chart, Version, disabled]
    vpc,         \* where validateReleaseCharts is
    charts,      \* the local map charts, as <<chart, version>> -> labels
    curChart,    \* the chart whose versions the loop of line 235 ranges over
    pending,     \* the pairs the loops of lines 234-235 have yet to reach
    sem,         \* the number of tokens in the channel sem
    wg,          \* the counter of the WaitGroup
    c,           \* the entries in the channel c, oldest first
    cClosed,     \* close(c) has run
    task,        \* the goroutine of each submitted pair: its arguments and
                 \* where it is
    fail,        \* the local variable fail
    logged,      \* the diagnostics handed to log.Error, in order
    drained,     \* the number of entries the loop of line 253 has read
    result,      \* what validateReleaseCharts returned ("": not yet)
    panicked,    \* a goroutine sent on the closed channel
    \* --- the defaults resolver (setDefaults) ---
    sdoc,        \* the document: Settings.StorageBackend, Context,
                 \* Settings.GlobalHooks, Settings.GlobalMaxHistory, Apps
    helmDriver,  \* the environment variable HELM_DRIVER ("": not set)
    snaps        \* the document and the variable at the start and after
                 \* each run of setDefaults

certVars == <<certValue, certResult>>
targetVars == <<appGroup, appNs, appDisabled, nsDisabled, TargetMap, groups,
                targets, lastOp, fresh>>
validateVars == <<doc, env, pc, err, ran, certWrites, names, visited, calls>>
chartVars == <<rel, vpc, charts, curChart, pending, sem, wg, c, cClosed, task,
               fail, logged, drained, result, panicked>>
defaultsVars == <<sdoc, helmDriver, snaps>>
vars == <<fs, certVars, targetVars, validateVars, chartVars, defaultsVars>>

(***************************************************************************)
(* String values.                                                          *)
(***************************************************************************)
Empty     == << >>
S3Key     == <<"s", "3", ":", "/", "/", "b", "/", "k">>
GsKey     == <<"g", "s", ":", "/", "/", "b", "/", "k">>
AzKey     == <<"a", "z", ":", "/", "/", "b", "/", "k">>
S3BadHost == <<"s", "3", ":", "/", "/", "b", " ", "k">>
HttpsUrl  == <<"h", "t", "t", "p", "s", ":", "/", "/", "b", "/", "k">>
AbsPath   == <<"/", "c", "/", "k">>
RelPath   == <<"c", "/", "k">>

S3Prefix == <<"s", "3", ":", "/", "/">>
GsPrefix == <<"g", "s", ":", "/", "/">>
AzPrefix == <<"a", "z", ":", "/", "/">>

Letters == {"a", "b", "c", "g", "h", "k", "p", "s", "t", "z"}
Digits  == {"3"}

\* The locations a certificate entry is given in the model.
CertValues == {Empty, S3Key, GsKey, AzKey, S3BadHost, HttpsUrl, AbsPath, RelPath}

\* The values that may exist as a path of the local filesystem (os.Stat("")
\* fails on every filesystem).
FsPaths == {S3Key, S3BadHost, HttpsUrl, AbsPath, RelPath}

(***************************************************************************)
(* strings.HasPrefix                                                       *)
(***************************************************************************)
HasPrefix(s, prefix) ==
    /\ Len(s) >= Len(prefix)
    /\ SubSeq(s, 1, Len(prefix)) = prefix

\* strings.Index of a one-character needle at or after position from
\* (1-based); 0 when absent.
RECURSIVE IndexFrom(_, _, _)
IndexFrom(s, ch, from) ==
    IF from > Len(s) THEN 0
    ELSE IF s[from] = ch THEN from
    ELSE IndexFrom(s, ch, from + 1)

(***************************************************************************)
(* net/url getScheme: the length of the scheme of rawURL (0: none), or -1 *)
(* for "missing protocol scheme" (a colon in first place).                 *)
(***************************************************************************)
RECURSIVE GetScheme(_, _)
GetScheme(rawURL, i) ==
    IF i > Len(rawURL) THEN 0
    ELSE IF rawURL[i] \in Letters THEN GetScheme(rawURL, i + 1)
    ELSE IF rawURL[i] \in Digits \cup {"+", "-", "."}
         THEN (IF i = 1 THEN 0 ELSE GetScheme(rawURL, i + 1))
    ELSE IF rawURL[i] = ":" THEN (IF i = 1 THEN -1 ELSE i - 1)
    ELSE 0

\* net/url parseHost on a host without brackets or port: a space (as every
\* character shouldEscape reports in host mode) is an invalid host character.
ValidHost(host) == \A i \in 1..Len(host) : host[i] # " "

(***************************************************************************)
(* url.ParseRequestURI(rawURL) returns no error.  The URL is parsed as in *)
(* a request: an absolute URI, or an absolute path.                        *)
(***************************************************************************)
ParseRequestURI(rawURL) ==
    LET n      == GetScheme(rawURL, 1)
        scheme == IF n > 0 THEN SubSeq(rawURL, 1, n) ELSE Empty
        rest   == IF n > 0 THEN SubSeq(rawURL, n + 2, Len(rawURL)) ELSE rawURL
        slash  == IndexFrom(rest, "/", 3)
        host   == SubSeq(rest, 3, IF slash = 0 THEN Len(rest) ELSE slash - 1)
    IN  /\ rawURL # Empty
        /\ n # -1
        /\ \/ HasPrefix(rest, <<"/">>)
           \/ scheme # Empty
        /\ (scheme # Empty /\ HasPrefix(rest, <<"/", "/">>)) => ValidHost(host)

\* os.Stat(path) returns no error.
Stat(path) == path \in fs

\* A plausible slip: the bucket-prefix test forgotten, so that every value
\* url.ParseRequestURI parses is valid.
isValidCertAnyURI(value) ==
    LET err1 == ~ParseRequestURI(value)
        err2 == ~Stat(value)
    IN  IF err2 /\ err1 THEN <<FALSE, Empty>> ELSE <<TRUE, value>>

\* A plausible slip: a bucket reference returned without its scheme.
isValidCertStripsScheme(value) ==
    LET err1 == ~ParseRequestURI(value)
        err2 == ~Stat(value)
    IN  IF err2 /\ (err1 \/ (/\ ~HasPrefix(value, S3Prefix)
                             /\ ~HasPrefix(value, GsPrefix)
                             /\ ~HasPrefix(value, AzPrefix)))
        THEN <<FALSE, Empty>>
        ELSE <<TRUE, IF HasPrefix(value, S3Prefix)
                     THEN SubSeq(value, Len(S3Prefix) + 1, Len(value))
                     ELSE value>>

\* A plausible slip: the bucket references required to exist locally like
\* every other value.
isValidCertLocalOnly(value) ==
    LET err2 == ~Stat(value)
    IN  IF err2 THEN <<FALSE, Empty>> ELSE <<TRUE, value>>

(***************************************************************************)
(* isValidCert(value): <<valid, path>>                                     *)
(***************************************************************************)
isValidCert(value) ==
    LET err1 == ~ParseRequestURI(value)
        err2 == ~Stat(value)
    IN  IF err2 /\ (err1 \/ (/\ ~HasPrefix(value, S3Prefix)
                             /\ ~HasPrefix(value, GsPrefix)
                             /\ ~HasPrefix(value, AzPrefix)))
        THEN <<FALSE, Empty>>
        ELSE <<TRUE, value>>

(***************************************************************************)
(* The parts of the state a specification does not use stay as they are   *)
(* here.                                                                   *)
(***************************************************************************)
CertIdle ==
    /\ certValue = Empty
    /\ certResult = << >>

TargetIdle ==
    /\ appGroup = << >>
    /\ appNs = << >>
    /\ appDisabled = << >>
    /\ nsDisabled = << >>
    /\ TargetMap = << >>
    /\ groups = << >>
    /\ targets = << >>
    /\ lastOp = "none"
    /\ fresh = FALSE

\* A nil error.
NoError == [stage |-> "", msg |-> "", key |-> ""]

ValidateIdle ==
    /\ doc = << >>
    /\ env = << >>
    /\ pc = "idle"
    /\ err = NoError
    /\ ran = << >>
    /\ certWrites = {}
    /\ names = << >>
    /\ visited = {}
    /\ calls = 0

ChartsIdle ==
    /\ rel = << >>
    /\ vpc = "idle"
    /\ charts = << >>
    /\ curChart = ""
    /\ pending = {}
    /\ sem = 0
    /\ wg = 0
    /\ c = << >>
    /\ cClosed = FALSE
    /\ task = << >>
    /\ fail = FALSE
    /\ logged = << >>
    /\ drained = 0
    /\ result = ""
    /\ panicked = FALSE

DefaultsIdle ==
    /\ sdoc = << >>
    /\ helmDriver = ""
    /\ snaps = << >>

(***************************************************************************)
(* SpecCert: isValidCert applied to every value on every filesystem.       *)
(***************************************************************************)
InitCert ==
    /\ fs \in SUBSET FsPaths
    /\ certValue \in CertValues
    /\ certResult = << >>
    /\ TargetIdle
    /\ ValidateIdle
    /\ ChartsIdle
    /\ DefaultsIdle

CallIsValidCert ==
    /\ certResult = << >>
    /\ certResult' = isValidCert(certValue)
    /\ UNCHANGED <<fs, defaultsVars, certValue, targetVars, validateVars, chartVars>>

NextCert == CallIsValidCert

SpecCert == InitCert /\ [][NextCert]_vars

BucketPrefixes == {S3Prefix, GsPrefix, AzPrefix}

HasBucketPrefix(value) == \E prefix \in BucketPrefixes : HasPrefix(value, prefix)

\* C1 as the spec states it: isValidCert reports a value valid if and only
\* if it parses as a URI (url.ParseRequestURI), or it names an existing local
\* path, or it starts with a bucket prefix; a valid value is returned
\* unchanged.
C1Original ==
    certResult # << >> =>
        /\ certResult[1] <=> \/ ParseRequestURI(certValue)
                             \/ Stat(certValue)
                             \/ HasBucketPrefix(certValue)
        /\ certResult[1] => certResult[2] = certValue

\* C1, amended: isValidCert reports a value valid if and only if it names an
\* existing local path, or it both parses as a URI and starts with a bucket
\* prefix; a valid value is returned unchanged.
C1Amended ==
    certResult # << >> =>
        /\ certResult[1] <=> \/ Stat(certValue)
                             \/ (ParseRequestURI(certValue) /\ HasBucketPrefix(certValue))
        /\ certResult[1] => certResult[2] = certValue

\* A URL that parses, has no bucket prefix and is no local path was rejected.
C1Witness ==
    /\ certValue = HttpsUrl
    /\ ParseRequestURI(certValue)
    /\ ~Stat(certValue)
    /\ certResult = <<FALSE, Empty>>

\* C14 as the spec states it: a value with a bucket prefix is reported
\* valid whether or not it exists on the local filesystem, and a value
\* without a bucket prefix that does not exist locally is reported invalid.
C14Original ==
    certResult # << >> =>
        /\ HasBucketPrefix(certValue) => certResult[1]
        /\ (~HasBucketPrefix(certValue) /\ ~Stat(certValue)) => ~certResult[1]

\* C14, amended: a value with a bucket prefix that parses as a URI is
\* reported valid, and returned, whether or not it exists on the local
\* filesystem; a value with a bucket prefix that does not parse is valid only
\* if it exists locally; and a value without a bucket prefix that does not
\* exist locally is reported invalid.
C14Amended ==
    certResult # << >> =>
        /\ (HasBucketPrefix(certValue) /\ ParseRequestURI(certValue))
              => certResult = <<TRUE, certValue>>
        /\ (HasBucketPrefix(certValue) /\ ~ParseRequestURI(certValue))
              => (certResult[1] <=> Stat(certValue))
        /\ (~HasBucketPrefix(certValue) /\ ~Stat(certValue))
              => certResult = <<FALSE, Empty>>

\* "s3://b/k" was reported valid on a filesystem that does not hold it but
\* holds other paths.
C14Witness ==
    /\ certValue = S3Key
    /\ ~Stat(S3Key)
    /\ fs # {}
    /\ certResult = <<TRUE, S3Key>>

(***************************************************************************)
(* Target resolution.  The document holds the releases Apps, each with a  *)
(* group label and a namespace, and the namespaces Namespaces.  Other is   *)
(* a name no release of the document has.                                  *)
(***************************************************************************)
Apps       == {"app1", "app2", "app3"}
Other      == "other"
Groups     == {"g1", "g2", "g3"}
Namespaces == {"ns1", "ns2"}

\* The longest selector list of a makeTargetMap call.
MaxSel == 1

\* The release a TargetMap entry of the document itself is about (TargetMap
\* is an exported field, so a document can bring entries along, true or
\* false).
PreTargets == {"app2"}

Range(seq) == {seq[i] : i \in 1..Len(seq)}

SeqsUpTo(S, n) == UNION {[1..k -> S] : k \in 0..n}

\* m with m[k] = v for every k of keys: a loop of Go map assignments.
MapPutAll(m, keys, v) ==
    [k \in DOMAIN m \cup keys |-> IF k \in keys THEN v ELSE m[k]]

\* use, ok := m[k]; use && ok
Selected(m, k) == k \in DOMAIN m /\ m[k]

\* lines 293-301: the releases whose group is one of the requested groups
GroupTargets(groupArgs) ==
    LET groupMap == MapPutAll(<< >>, Range(groupArgs), TRUE)
    IN  {appName \in Apps : Selected(groupMap, appGroup[appName])}

\* A plausible slip: the explicitly requested names are not added.
makeTargetMapGroupsOnly(groupArgs, targetArgs) ==
    MapPutAll(TargetMap, GroupTargets(groupArgs), TRUE)

\* s.TargetMap after makeTargetMap(groupArgs, targetArgs)
makeTargetMap(groupArgs, targetArgs) ==
    MapPutAll(MapPutAll(TargetMap, GroupTargets(groupArgs), TRUE),
              Range(targetArgs), TRUE)

\* lines 312-319: the namespaces of the releases the TargetMap selects
TargetNamespaces == {appNs[appName] : appName \in {a \in Apps : Selected(TargetMap, a)}}

\* A plausible slip: the early return on an empty TargetMap left out.
NoEarlyReturn == FALSE

\* line 309: the early return
NoTargets == Cardinality(DOMAIN TargetMap) = 0

\* A plausible slip: the releases the TargetMap selects disabled as well.
disableAppsSelectedToo ==
    IF NoTargets THEN appDisabled
    ELSE [appName \in Apps |-> TRUE]

\* the releases' flags after disableUntargettedApps
disableApps ==
    IF NoTargets THEN appDisabled
    ELSE [appName \in Apps |->
            IF ~Selected(TargetMap, appName) THEN TRUE
            ELSE appDisabled[appName]]

\* the namespaces' flags after disableUntargettedApps
disableNamespaces ==
    IF NoTargets THEN nsDisabled
    ELSE [nsName \in Namespaces |->
            IF nsName \notin TargetNamespaces THEN TRUE
            ELSE nsDisabled[nsName]]

\* Group and namespace names are interchangeable: app1 has the first of
\* each, and app2 the first or the second group.
InitTarget ==
    /\ appGroup \in {f \in [Apps -> Groups] : f["app1"] = "g1" /\ f["app2"] # "g3"}
    /\ appNs \in {f \in [Apps -> Namespaces] : f["app1"] = "ns1"}
    /\ appDisabled \in [Apps -> BOOLEAN]
    /\ nsDisabled \in [Namespaces -> BOOLEAN]
    /\ TargetMap \in UNION {[S -> BOOLEAN] : S \in SUBSET PreTargets}
    /\ groups \in SeqsUpTo(Groups, MaxSel)
    /\ targets \in SeqsUpTo(Apps \cup {Other}, MaxSel)
    /\ lastOp = "none"
    /\ fresh = FALSE
    /\ fs = {}
    /\ CertIdle
    /\ ValidateIdle
    /\ ChartsIdle
    /\ DefaultsIdle

\* s.makeTargetMap(flags.group, flags.target)
MakeTargetMap ==
    /\ TargetMap' = makeTargetMap(groups, targets)
    /\ lastOp' = "makeTargetMap"
    /\ fresh' = (DOMAIN TargetMap = {})
    /\ UNCHANGED <<appGroup, appNs, appDisabled, nsDisabled, groups, targets,
                   fs, defaultsVars, certVars, validateVars, chartVars>>

DisableUntargettedApps ==
    /\ appDisabled' = disableApps
    /\ nsDisabled' = disableNamespaces
    /\ lastOp' = "disableUntargettedApps"
    /\ UNCHANGED <<appGroup, appNs, TargetMap, groups, targets, fresh, fs, defaultsVars,
                   certVars, validateVars, chartVars>>

NextTarget == MakeTargetMap \/ DisableUntargettedApps

SpecTarget == InitTarget /\ [][NextTarget]_vars

\* The releases of the document that remain enabled.
EnabledApps == {a \in Apps : ~appDisabled[a]}

\* C2: after disableUntargettedApps has run with a non-empty TargetMap, every
\* release absent from the TargetMap or mapped to false is disabled, and
\* every namespace that is not the namespace of a release that remains
\* enabled is disabled, whatever the flags were before the call.
C2Claim ==
    (lastOp = "disableUntargettedApps" /\ DOMAIN TargetMap # {}) =>
        /\ \A a \in Apps :
              (a \notin DOMAIN TargetMap \/ ~TargetMap[a]) => appDisabled[a]
        /\ \A n \in Namespaces :
              (\A a \in EnabledApps : appNs[a] # n) => nsDisabled[n]

\* The selection the selectors of the run describe: the releases whose
\* group is a requested group, and every requested name.
ExpectedSelection ==
    {a \in Apps : \E i \in 1..Len(groups) : groups[i] = appGroup[a]}
        \cup {targets[i] : i \in 1..Len(targets)}

\* C3: after makeTargetMap on a document whose TargetMap was empty, the
\* TargetMap selects exactly the releases whose group was requested and the
\* names that were requested; a following disableUntargettedApps (the
\* selection not being empty) disables every release outside the selection
\* and every namespace no selected release uses.
C3Theorem ==
    fresh =>
        /\ DOMAIN TargetMap = ExpectedSelection
        /\ \A n \in DOMAIN TargetMap : TargetMap[n]
        /\ (lastOp = "disableUntargettedApps" /\ ExpectedSelection # {}) =>
              /\ \A a \in Apps \ ExpectedSelection : appDisabled[a]
              /\ \A n \in Namespaces :
                    (\A a \in Apps \cap ExpectedSelection : appNs[a] # n)
                        => nsDisabled[n]

\* The example of the spec: groups {g1}, names {app3}, and app1(g1), app2(g2),
\* app3(g3), app2 alone in its namespace.
C3Witness ==
    /\ fresh
    /\ lastOp = "disableUntargettedApps"
    /\ groups = <<"g1">> /\ targets = <<"app3">>
    /\ appGroup = [a \in Apps |-> CASE a = "app1" -> "g1" [] a = "app2" -> "g2" [] OTHER -> "g3"]
    /\ appNs = [a \in Apps |-> IF a = "app2" THEN "ns2" ELSE "ns1"]
    /\ DOMAIN TargetMap = {"app1", "app3"}
    /\ appDisabled = [a \in Apps |-> a = "app2"]
    /\ nsDisabled = [n \in Namespaces |-> n = "ns2"]

\* C4: with no group and no name requested makeTargetMap leaves the TargetMap
\* as it is (empty when it was empty), and with an empty TargetMap
\* disableUntargettedApps changes the flag of no release and no namespace.
C4Theorem ==
    [][/\ (lastOp' = "makeTargetMap" /\ groups = << >> /\ targets = << >>)
            => TargetMap' = TargetMap
       /\ (lastOp' = "disableUntargettedApps" /\ DOMAIN TargetMap = {})
            => (appDisabled' = appDisabled /\ nsDisabled' = nsDisabled)]_vars

\* disableUntargettedApps has run with no selector and an empty TargetMap, and
\* every release and namespace is enabled.
C4Witness ==
    /\ lastOp = "disableUntargettedApps"
    /\ groups = << >> /\ targets = << >>
    /\ DOMAIN TargetMap = {}
    /\ \A a \in Apps : ~appDisabled[a]
    /\ \A n \in Namespaces : ~nsDisabled[n]

\* C16: after makeTargetMap the TargetMap holds exactly the selection of
\* that call's groups and names, each mapped to true, and no entry that was
\* in the TargetMap before the call.
C16Claim ==
    lastOp = "makeTargetMap" =>
        /\ DOMAIN TargetMap = ExpectedSelection
        /\ \A n \in DOMAIN TargetMap : TargetMap[n]

\* C18: when a group or a name was requested, after makeTargetMap (on an
\* empty TargetMap) and disableUntargettedApps every release outside the
\* selection is disabled, also when the selection holds no release of the
\* document.
C18Claim ==
    (/\ fresh
     /\ lastOp = "disableUntargettedApps"
     /\ (groups # << >> \/ targets # << >>))
        => \A a \in Apps \ ExpectedSelection : appDisabled[a]

\* C20: a step of disableUntargettedApps enables no release and no namespace
\* that was disabled, leaves the flag of every release the TargetMap maps to
\* true as it was, leaves the TargetMap and the namespaces of the releases
\* as they were, and changes nothing at all when it follows a step of
\* disableUntargettedApps.
C20Theorem ==
    [][lastOp' = "disableUntargettedApps" =>
          /\ \A a \in Apps : appDisabled[a] => appDisabled'[a]
          /\ \A n \in Namespaces : nsDisabled[n] => nsDisabled'[n]
          /\ \A a \in Apps : Selected(TargetMap, a) => appDisabled'[a] = appDisabled[a]
          /\ TargetMap' = TargetMap
          /\ appNs' = appNs /\ appGroup' = appGroup
          /\ lastOp = "disableUntargettedApps" =>
                (appDisabled' = appDisabled /\ nsDisabled' = nsDisabled)]_vars

\* disableUntargettedApps has run with app1 selected: app1 is enabled as
\* before, app2 and app3 and the namespace ns2 of no selected release are
\* disabled.
C20Witness ==
    /\ lastOp = "disableUntargettedApps"
    /\ DOMAIN TargetMap = {"app1"} /\ TargetMap["app1"]
    /\ appNs["app2"] = "ns2"
    /\ appDisabled = [a \in Apps |-> a # "app1"]
    /\ nsDisabled = [n \in Namespaces |-> n = "ns2"]

(***************************************************************************)
(* The validation pipeline.  A document is a record                        *)
(*   Settings:     the config fields validate reads                        *)
(*   Certificates: key -> location (nil is the empty map)                  *)
(*   Namespaces:   the names declared (nil is the empty set)               *)
(*   HelmRepos:    repo name -> URL                                        *)
(*   AppsNil:      s.Apps == nil                                           *)
(*   Apps:         label -> [Name, Namespace, Valid], Valid telling        *)
(*                 whether the release passes the field checks of the      *)
(*                 per-release validator                                   *)
(***************************************************************************)
ZeroConfig ==
    [KubeContext |-> "", Username |-> "", Password |-> "", ClusterURI |-> Empty,
     BearerToken |-> FALSE, BearerTokenPath |-> Empty, SlackWebhook |-> Empty,
     GlobalHooks |-> << >>, EyamlPrivateKeyPath |-> "", EyamlPublicKeyPath |-> ""]

Error(stage, msg, key) == [stage |-> stage, msg |-> msg, key |-> key]

\* The most calls of validate on one document.
MaxCalls == 2

\* A plausible slip: bearer-token auth without a cluster URI let through.
SettingsErrorNoBearerCheck(S) ==
    IF (S = ZeroConfig \/ S.KubeContext = "") /\ ~env.kubeContext
    THEN "no kubeContext"
    ELSE IF S.ClusterURI # Empty
    THEN IF ~ParseRequestURI(S.ClusterURI) THEN "clusterURI is no valid URL"
         ELSE IF S.KubeContext = "" THEN "KubeContext missing"
         ELSE IF ~S.BearerToken /\ S.Username = "" THEN "username missing"
         ELSE IF ~S.BearerToken /\ S.Password = "" THEN "password missing"
         ELSE IF S.BearerToken /\ S.BearerTokenPath # Empty /\ ~Stat(S.BearerTokenPath)
         THEN "bearer token path not found"
         ELSE ""
    ELSE ""

\* lines 101-128: the message of the settings error, "" when there is none
SettingsError(S) ==
    IF (S = ZeroConfig \/ S.KubeContext = "") /\ ~env.kubeContext
    THEN "no kubeContext"
    ELSE IF S.ClusterURI # Empty
    THEN IF ~ParseRequestURI(S.ClusterURI) THEN "clusterURI is no valid URL"
         ELSE IF S.KubeContext = "" THEN "KubeContext missing"
         ELSE IF ~S.BearerToken /\ S.Username = "" THEN "username missing"
         ELSE IF ~S.BearerToken /\ S.Password = "" THEN "password missing"
         ELSE IF S.BearerToken /\ S.BearerTokenPath # Empty /\ ~Stat(S.BearerTokenPath)
         THEN "bearer token path not found"
         ELSE ""
    ELSE IF S.BearerToken /\ S.ClusterURI = Empty
    THEN "bearer token without cluster URI"
    ELSE ""

\* The hook types the hook-schema validator knows.
HookTypes == {"preInstall", "postInstall"}

\* validateHooks(hooks): the hook-schema validator, which is not part of
\* state.go; it accepts the hooks whose types it knows.
validateHooks(hooks) == DOMAIN hooks \subseteq HookTypes

\* lines 130-135
HooksError(S) ==
    IF Cardinality(DOMAIN S.GlobalHooks) # 0 /\ ~validateHooks(S.GlobalHooks)
    THEN "invalid hooks"
    ELSE ""

\* lines 137-142
WebhookError(S) ==
    IF S.SlackWebhook # Empty /\ ~ParseRequestURI(S.SlackWebhook)
    THEN "slackWebhook is no valid URL"
    ELSE ""

\* lines 147-153: the certificate entries isValidCert rejects
BadCerts(certs) == {key \in DOMAIN certs : ~isValidCert(certs[key])[1]}

\* A plausible slip: && for || in the test of line 159.
CertCrossErrorEither(S, certs) ==
    LET caCrt == "caCrt" \in DOMAIN certs
        caKey == "caKey" \in DOMAIN certs
    IN  IF S.ClusterURI # Empty /\ ~S.BearerToken
        THEN (IF ~caCrt /\ ~caKey THEN "no cert/key given" ELSE "")
        ELSE IF S.ClusterURI # Empty /\ S.BearerToken
        THEN (IF ~caCrt THEN "caCrt missing" ELSE "")
        ELSE ""

\* lines 155-169: the cross check of the certificates against the settings
CertCrossError(S, certs) ==
    LET caCrt == "caCrt" \in DOMAIN certs
        caKey == "caKey" \in DOMAIN certs
    IN  IF S.ClusterURI # Empty /\ ~S.BearerToken
        THEN (IF ~caCrt \/ ~caKey THEN "no cert/key given" ELSE "")
        ELSE IF S.ClusterURI # Empty /\ S.BearerToken
        THEN (IF ~caCrt THEN "caCrt missing" ELSE "")
        ELSE ""

\* lines 171-175
NoCertsError(S) ==
    IF S.ClusterURI # Empty THEN "no certificates stanza" ELSE ""

\* lines 177-179
EyamlError(S) ==
    IF \/ (S.EyamlPrivateKeyPath # "" /\ S.EyamlPublicKeyPath = "")
       \/ (S.EyamlPrivateKeyPath = "" /\ S.EyamlPublicKeyPath # "")
    THEN "both eyaml keys are required"
    ELSE ""

\* lines 181-188
NamespacesError(d) ==
    IF env.nsOverride = "" /\ Cardinality(d.Namespaces) = 0
    THEN "at least one namespace is required"
    ELSE ""

\* lines 191-197: the repositories whose URL does not parse
BadRepos(d) == {k \in DOMAIN d.HelmRepos : ~ParseRequestURI(d.HelmRepos[k])}

(***************************************************************************)
(* release.validate(appLabel, names, s), which is not part of state.go:    *)
(* it reports a (namespace, name) the tracker holds already, reports a     *)
(* release that fails the field checks, and otherwise records the pair.    *)
(* The result is [msg, names].                                             *)
(***************************************************************************)
releaseValidate(r, tracker) ==
    IF r.Namespace \in DOMAIN tracker /\ r.Name \in tracker[r.Namespace]
    THEN [msg |-> "duplicate release", names |-> tracker]
    ELSE IF ~r.Valid
    THEN [msg |-> "invalid release", names |-> tracker]
    ELSE [msg |-> "",
          names |-> [ns \in DOMAIN tracker \cup {r.Namespace} |->
                        IF ns = r.Namespace
                        THEN (IF ns \in DOMAIN tracker THEN tracker[ns] ELSE {})
                                \cup {r.Name}
                        ELSE tracker[ns]]]

\* The orders a Go map with keys S is ranged over.
Orders(S) == {order \in [1..Cardinality(S) -> S] : Range(order) = S}

\* A plausible slip: a tracker of its own for every release.
RECURSIVE ValidateAppsFreshTracker(_, _, _, _, _)
ValidateAppsFreshTracker(apps, order, i, tracker, seen) ==
    IF i > Len(order)
    THEN [msg |-> "", key |-> "", names |-> tracker, visited |-> seen]
    ELSE LET res == releaseValidate(apps[order[i]], << >>)
         IN  IF res.msg # ""
             THEN [msg |-> res.msg, key |-> order[i], names |-> res.names,
                   visited |-> seen \cup {order[i]}]
             ELSE ValidateAppsFreshTracker(apps, order, i + 1, res.names,
                                           seen \cup {order[i]})

\* lines 199-204: the loop over s.Apps in the given order, from release i
\* on: [msg, key, names, visited]
RECURSIVE ValidateApps(_, _, _, _, _)
ValidateApps(apps, order, i, tracker, seen) ==
    IF i > Len(order)
    THEN [msg |-> "", key |-> "", names |-> tracker, visited |-> seen]
    ELSE LET res == releaseValidate(apps[order[i]], tracker)
         IN  IF res.msg # ""
             THEN [msg |-> res.msg, key |-> order[i], names |-> res.names,
                   visited |-> seen \cup {order[i]}]
             ELSE ValidateApps(apps, order, i + 1, res.names, seen \cup {order[i]})

\* A plausible slip: the namespaces checked ahead of the eyaml keys.
StageAfterSwapped(stage) ==
    CASE stage = "settings" -> "hooks"
      [] stage = "hooks" -> "webhook"
      [] stage = "webhook" -> "certificates"
      [] stage = "certificates" -> "namespaces"
      [] stage = "namespaces" -> "eyaml"
      [] stage = "eyaml" -> "repos"
      [] stage = "repos" -> "apps"
      [] stage = "apps" -> "returned"

\* The stage that follows a stage that found no error (lines 101-206, top
\* to bottom).
StageAfter(stage) ==
    CASE stage = "settings" -> "hooks"
      [] stage = "hooks" -> "webhook"
      [] stage = "webhook" -> "certificates"
      [] stage = "certificates" -> "eyaml"
      [] stage = "eyaml" -> "namespaces"
      [] stage = "namespaces" -> "repos"
      [] stage = "repos" -> "apps"
      [] stage = "apps" -> "returned"

\* A stage ends: with an error validate returns it, without one the next
\* stage follows.
EndStage(stage, msg, key) ==
    /\ ran' = Append(ran, stage)
    /\ IF msg # ""
       THEN pc' = "returned" /\ err' = Error(stage, msg, key)
       ELSE pc' = StageAfter(stage) /\ err' = err

\* lines 95-99
ValidateEnter ==
    /\ pc = "start"
    /\ pc' = IF doc.AppsNil THEN "exit0" ELSE "settings"
    /\ calls' = calls + 1
    /\ UNCHANGED <<doc, env, err, ran, certWrites, names, visited, fs,
                   defaultsVars, certVars, targetVars, chartVars>>

\* validate is called again on the document as the last call left it (the
\* tracker of the last call is garbage until line 199 makes a new one).
ValidateAgain ==
    /\ pc = "returned"
    /\ calls < MaxCalls
    /\ pc' = "start"
    /\ err' = NoError
    /\ ran' = << >>
    /\ certWrites' = {}
    /\ visited' = {}
    /\ UNCHANGED <<doc, env, names, calls, fs, defaultsVars, certVars, targetVars,
                   chartVars>>

ValidateSettings ==
    /\ pc = "settings"
    /\ EndStage("settings", SettingsError(doc.Settings), "")
    /\ UNCHANGED <<doc, env, calls, certWrites, names, visited, fs, defaultsVars, certVars, targetVars,
                   chartVars>>

ValidateHooks ==
    /\ pc = "hooks"
    /\ EndStage("hooks", HooksError(doc.Settings), "")
    /\ UNCHANGED <<doc, env, calls, certWrites, names, visited, fs, defaultsVars, certVars, targetVars,
                   chartVars>>

ValidateWebhook ==
    /\ pc = "webhook"
    /\ EndStage("webhook", WebhookError(doc.Settings), "")
    /\ UNCHANGED <<doc, env, calls, certWrites, names, visited, fs, defaultsVars, certVars, targetVars,
                   chartVars>>

\* lines 144-175.  The map is ranged over in any order: the entry rejected
\* first is any rejected entry, and the entries rewritten before it are any
\* of the valid ones.
ValidateCertificates ==
    /\ pc = "certificates"
    /\ LET certs == doc.Certificates
           bad   == BadCerts(certs)
       IN  IF Cardinality(DOMAIN certs) # 0
           THEN IF bad # {}
                THEN \E key \in bad, done \in SUBSET (DOMAIN certs \ bad) :
                        /\ certWrites' = done
                        /\ doc' = [doc EXCEPT !.Certificates =
                                     [k \in DOMAIN certs |->
                                        IF k \in done THEN isValidCert(certs[k])[2]
                                        ELSE certs[k]]]
                        /\ EndStage("certificates", "invalid certificate", key)
                ELSE /\ certWrites' = DOMAIN certs
                     /\ doc' = [doc EXCEPT !.Certificates =
                                  [k \in DOMAIN certs |-> isValidCert(certs[k])[2]]]
                     /\ EndStage("certificates",
                                 CertCrossError(doc.Settings, certs), "")
           ELSE /\ EndStage("certificates", NoCertsError(doc.Settings), "")
                /\ UNCHANGED <<doc, certWrites>>
    /\ UNCHANGED <<env, calls, names, visited, fs, defaultsVars, certVars, targetVars,
                   chartVars>>

ValidateEyaml ==
    /\ pc = "eyaml"
    /\ EndStage("eyaml", EyamlError(doc.Settings), "")
    /\ UNCHANGED <<doc, env, calls, certWrites, names, visited, fs, defaultsVars, certVars, targetVars,
                   chartVars>>

ValidateNamespaces ==
    /\ pc = "namespaces"
    /\ EndStage("namespaces", NamespacesError(doc), "")
    /\ UNCHANGED <<doc, env, calls, certWrites, names, visited, fs, defaultsVars, certVars, targetVars,
                   chartVars>>

ValidateRepos ==
    /\ pc = "repos"
    /\ IF BadRepos(doc) # {}
       THEN \E k \in BadRepos(doc) : EndStage("repos", "repo URL is not valid", k)
       ELSE EndStage("repos", "", "")
    /\ UNCHANGED <<doc, env, calls, certWrites, names, visited, fs, defaultsVars, certVars, targetVars,
                   chartVars>>

ValidateReleases ==
    /\ pc = "apps"
    /\ \E order \in Orders(DOMAIN doc.Apps) :
          LET res == ValidateApps(doc.Apps, order, 1, << >>, {})
          IN  /\ names' = res.names
              /\ visited' = res.visited
              /\ EndStage("apps", res.msg, res.key)
    /\ UNCHANGED <<doc, env, calls, certWrites, fs, defaultsVars, certVars, targetVars,
                   chartVars>>

NextValidate ==
    \/ ValidateEnter
    \/ ValidateSettings
    \/ ValidateHooks
    \/ ValidateWebhook
    \/ ValidateCertificates
    \/ ValidateEyaml
    \/ ValidateNamespaces
    \/ ValidateRepos
    \/ ValidateReleases
    \/ ValidateAgain

(***************************************************************************)
(* The documents validate is run on.                                       *)
(***************************************************************************)
GoodHooks == [h \in {"preInstall"} |-> "job.yaml"]
BadHooks  == [h \in {"onFire"} |-> "job.yaml"]

LocalSettings == [ZeroConfig EXCEPT !.KubeContext = "ctx"]

OneRelease(valid) ==
    [l \in {"a"} |-> [Name |-> "a", Namespace |-> "ns1", Valid |-> valid]]

\* Two releases: under the same name, in the same namespace or not.
TwoReleases(ns) ==
    [l \in {"a", "b"} |->
        [Name |-> "web", Namespace |-> IF l = "a" THEN "ns1" ELSE ns, Valid |-> TRUE]]

CertMaps ==
    UNION {[keys -> {S3Key, RelPath}] : keys \in SUBSET {"caCrt", "caKey"}}

\* Every combination of the settings the settings stage reads, with every
\* certificate map; the later stanzas are in order.
SettingsDocs ==
    {[Settings     |-> [ZeroConfig EXCEPT !.KubeContext = ctx, !.Username = user,
                                          !.Password = pass, !.ClusterURI = uri,
                                          !.BearerToken = bearer,
                                          !.BearerTokenPath = path],
      Certificates |-> certs,
      Namespaces   |-> {"ns1"},
      HelmRepos    |-> << >>,
      AppsNil      |-> FALSE,
      Apps         |-> OneRelease(TRUE)] :
        ctx \in {"", "ctx"}, user \in {"", "admin"}, pass \in {"", "secret"},
        uri \in {Empty, HttpsUrl, RelPath}, bearer \in BOOLEAN,
        path \in {Empty, AbsPath}, certs \in CertMaps}

\* Every combination of stanzas in order and out of order, one stanza per
\* stage.
StageDocs ==
    {[Settings     |-> [settings EXCEPT !.GlobalHooks = hooks, !.SlackWebhook = hook,
                                        !.EyamlPrivateKeyPath = private,
                                        !.EyamlPublicKeyPath = public],
      Certificates |-> certs,
      Namespaces   |-> nss,
      HelmRepos    |-> repos,
      AppsNil      |-> apps[1],
      Apps         |-> apps[2]] :
        settings \in {LocalSettings, ZeroConfig,
                      [LocalSettings EXCEPT !.ClusterURI = HttpsUrl,
                                            !.Username = "admin",
                                            !.Password = "secret"],
                      [LocalSettings EXCEPT !.ClusterURI = HttpsUrl,
                                            !.BearerToken = TRUE]},
        hooks \in {<< >>, GoodHooks, BadHooks},
        hook \in {Empty, HttpsUrl, RelPath},
        private \in {"", "private.pem"},
        public \in {"", "public.pem"},
        certs \in {<< >>, [k \in {"caCrt", "caKey"} |-> S3Key],
                   [k \in {"caCrt", "caKey"} |-> IF k = "caCrt" THEN S3Key ELSE RelPath]},
        nss \in {{}, {"ns1"}},
        repos \in {<< >>, [k \in {"stable"} |-> HttpsUrl], [k \in {"stable"} |-> RelPath]},
        apps \in {<<TRUE, << >>>>, <<FALSE, << >>>>, <<FALSE, OneRelease(TRUE)>>,
                  <<FALSE, OneRelease(FALSE)>>, <<FALSE, TwoReleases("ns1")>>,
                  <<FALSE, TwoReleases("ns2")>>}}

InitValidate ==
    /\ \/ /\ doc \in SettingsDocs
          /\ env \in [kubeContext : BOOLEAN, nsOverride : {""}]
          /\ fs \in SUBSET {AbsPath}
       \/ /\ doc \in StageDocs
          /\ env \in [kubeContext : {FALSE}, nsOverride : {"", "ns"}]
          /\ fs = {}
    /\ pc = "start"
    /\ err = NoError
    /\ ran = << >>
    /\ certWrites = {}
    /\ names = << >>
    /\ visited = {}
    /\ calls = 0
    /\ CertIdle
    /\ TargetIdle
    /\ ChartsIdle
    /\ DefaultsIdle

SpecValidate == InitValidate /\ [][NextValidate]_vars

\* validate returned nil.
Accepted == pc = "returned" /\ err = NoError

StageOrder ==
    <<"settings", "hooks", "webhook", "certificates", "eyaml", "namespaces",
      "repos", "apps">>

\* The document violates what the stage checks.
Violates(stage) ==
    CASE stage = "settings" -> SettingsError(doc.Settings) # ""
      [] stage = "hooks" -> HooksError(doc.Settings) # ""
      [] stage = "webhook" -> WebhookError(doc.Settings) # ""
      [] stage = "certificates" ->
            IF DOMAIN doc.Certificates # {}
            THEN \/ BadCerts(doc.Certificates) # {}
                 \/ CertCrossError(doc.Settings, doc.Certificates) # ""
            ELSE NoCertsError(doc.Settings) # ""
      [] stage = "eyaml" -> EyamlError(doc.Settings) # ""
      [] stage = "namespaces" -> NamespacesError(doc) # ""
      [] stage = "repos" -> BadRepos(doc) # {}
      [] stage = "apps" ->
            \/ \E l \in DOMAIN doc.Apps : ~doc.Apps[l].Valid
            \/ \E l1, l2 \in DOMAIN doc.Apps :
                  /\ l1 # l2
                  /\ doc.Apps[l1].Name = doc.Apps[l2].Name
                  /\ doc.Apps[l1].Namespace = doc.Apps[l2].Namespace

ViolatedStages == {i \in 1..Len(StageOrder) : Violates(StageOrder[i])}

\* The place in StageOrder of the earliest stage the document violates.
FirstViolated == CHOOSE i \in ViolatedStages : \A j \in ViolatedStages : i <= j

\* C5: when validate returns, the stages that ran are the stages of the
\* fixed order up to the earliest one the document violates, the error is
\* that stage's, and no later stage has run: before the certificates stage
\* no certificate entry is rewritten, before the releases stage the
\* per-release validator is not invoked.
C5Theorem ==
    pc = "returned" =>
        IF ViolatedStages = {}
        THEN err = NoError /\ ran = StageOrder
        ELSE /\ err.stage = StageOrder[FirstViolated]
             /\ ran = SubSeq(StageOrder, 1, FirstViolated)
             /\ FirstViolated < 4 => certWrites = {}
             /\ FirstViolated < 8 => (visited = {} /\ names = << >>)

\* A document that violates the hooks, webhook, eyaml, namespaces, repos and
\* releases stages at once was rejected for its hooks.
C5Witness ==
    /\ pc = "returned"
    /\ err.stage = "hooks"
    /\ {3, 5, 6, 7, 8} \subseteq ViolatedStages
    /\ DOMAIN doc.Certificates # {}
    /\ certWrites = {}
    /\ visited = {}

\* C9: a document with a cluster URI that validate accepts holds "caCrt",
\* and "caKey" too unless bearer-token auth is selected; for a document with
\* a cluster URI and no certificates, or without bearer-token auth and
\* without "caKey", validate, when it returns, returns an error of the
\* certificates stage or of a stage before it.
C9Theorem ==
    doc.Settings.ClusterURI # Empty =>
        /\ Accepted =>
              /\ "caCrt" \in DOMAIN doc.Certificates
              /\ ~doc.Settings.BearerToken => "caKey" \in DOMAIN doc.Certificates
        /\ (/\ pc = "returned"
            /\ \/ DOMAIN doc.Certificates = {}
               \/ (~doc.Settings.BearerToken /\ "caKey" \notin DOMAIN doc.Certificates))
              => err.stage \in {"settings", "hooks", "webhook", "certificates"}

\* A document with a cluster URI, user and password, "caCrt" and "caKey" was
\* accepted.
C9Witness ==
    /\ Accepted
    /\ doc.Settings.ClusterURI # Empty
    /\ ~doc.Settings.BearerToken
    /\ DOMAIN doc.Certificates = {"caCrt", "caKey"}

\* C10: a document validate accepts has no cluster URI and no bearer-token
\* auth, or has a cluster URI that parses, a context name and an auth method
\* (the bearer token, or user and password), with or without an ambient
\* context.
C10Theorem ==
    Accepted =>
        LET S == doc.Settings
        IN  \/ (S.ClusterURI = Empty /\ ~S.BearerToken)
            \/ /\ ParseRequestURI(S.ClusterURI)
               /\ S.KubeContext # ""
               /\ \/ S.BearerToken
                  \/ (S.Username # "" /\ S.Password # "")

\* With an ambient context, a document with a cluster URI, a context name
\* and the bearer token was accepted.
C10Witness ==
    /\ Accepted
    /\ env.kubeContext
    /\ doc.Settings.ClusterURI # Empty
    /\ doc.Settings.BearerToken

\* C11: for a document without releases, the release map absent or present
\* and empty, validate ends the run as a successful no-op: no stage runs and
\* no error is returned, whatever the other stanzas hold.
C11Claim ==
    (doc.AppsNil \/ DOMAIN doc.Apps = {}) =>
        /\ pc \in {"start", "exit0"}
        /\ ran = << >>
        /\ err = NoError

\* Two releases of the document have the same namespace and name under
\* different keys.
HasDuplicate ==
    \E l1, l2 \in DOMAIN doc.Apps :
        /\ l1 # l2
        /\ doc.Apps[l1].Name = doc.Apps[l2].Name
        /\ doc.Apps[l1].Namespace = doc.Apps[l2].Namespace

\* The (namespace, name) pairs a tracker holds.
TrackerPairs(tracker) ==
    UNION {{<<ns, n>> : n \in tracker[ns]} : ns \in DOMAIN tracker}

\* C13: when validate returns on a document with two releases of the same
\* namespace and name under different keys, it returns an error, in whatever
\* order the releases were visited; when it has reached the releases, the
\* error is the duplicate's unless both releases are valid and of different
\* namespaces or names, in which case there is none; and the tracker holds
\* exactly the pairs of the releases this call visited and did not reject,
\* in the first call and in a later one.
C13Theorem ==
    pc = "returned" =>
        /\ HasDuplicate => err # NoError
        /\ ran = StageOrder =>
              /\ (HasDuplicate /\ \A l \in DOMAIN doc.Apps : doc.Apps[l].Valid)
                    => (err.stage = "apps" /\ err.msg = "duplicate release")
              /\ (~HasDuplicate /\ \A l \in DOMAIN doc.Apps : doc.Apps[l].Valid)
                    => err = NoError
              /\ TrackerPairs(names) =
                    {<<doc.Apps[l].Namespace, doc.Apps[l].Name>> :
                        l \in visited \ {err.key}}

\* In a second call on the same document, the release "b" was visited first
\* and "a", of the same namespace and name, was rejected as its duplicate.
C13Witness ==
    /\ calls = 2
    /\ pc = "returned"
    /\ err.stage = "apps" /\ err.msg = "duplicate release" /\ err.key = "a"
    /\ visited = {"a", "b"}
    /\ TrackerPairs(names) = {<<"ns1", "web">>}

\* C19: no step of validate changes the document: the certificates map
\* keeps its keys and values, the rewrite of line 152 storing the value that
\* was there, and no other stanza is assigned, whether validate goes on,
\* returns nil or returns an error.
C19Theorem == [][doc' = doc]_vars

\* validate rewrote both certificate entries and then returned an error of a
\* later stage.
C19Witness ==
    /\ pc = "returned"
    /\ certWrites = {"caCrt", "caKey"}
    /\ err.stage \in {"eyaml", "namespaces", "repos", "apps"}
    /\ \E k \in DOMAIN doc.Certificates : doc.Certificates[k] = S3Key

(***************************************************************************)
(* The concurrent chart validator. The document holds the releases       *)
(* Labels, each with a chart, a version and the flag release.Disable()    *)
(* sets.  The main goroutine groups the releases, starts one goroutine    *)
(* per (chart, version), waits for them, closes c and drains it.          *)
(***************************************************************************)
Labels     == {"a", "b", "c"}
ChartNames == {"c1", "c2"}
Versions   == {"v1", "v2"}

\* The size of the pool, resourcePool (the code's value scaled down).
ResourcePool == 2

\* A plausible slip: the queue sized like the pool.
CapacityOfPool == ResourcePool

\* line 216: the capacity of c, len(s.Apps)
Capacity == Cardinality(DOMAIN rel)

\* release.isConsideredToRun(), which is not part of state.go: the release
\* is not disabled.
isConsideredToRun(r) == ~r.disabled

\* strings.Join(elems, sep)
RECURSIVE Join(_, _)
Join(elems, sep) ==
    IF Len(elems) = 0 THEN << >>
    ELSE IF Len(elems) = 1 THEN <<elems[1]>>
    ELSE <<elems[1], sep>> \o Join(Tail(elems), sep)

\* charts[chart][version] = append(charts[chart][version], app)
AppendApp(m, key, app) ==
    [k \in DOMAIN m \cup {key} |->
        IF k = key THEN Append(IF key \in DOMAIN m THEN m[key] ELSE << >>, app)
        ELSE m[k]]

\* A plausible slip: the releases not considered to run are grouped too.
RECURSIVE BuildChartsAll(_, _, _)
BuildChartsAll(order, i, m) ==
    IF i > Len(order) THEN m
    ELSE LET r == rel[order[i]]
         IN  BuildChartsAll(order, i + 1, AppendApp(m, <<r.Chart, r.Version>>, order[i]))

\* lines 218-232: the map charts, s.Apps ranged over in the given order,
\* from release i on
RECURSIVE BuildCharts(_, _, _)
BuildCharts(order, i, m) ==
    IF i > Len(order) THEN m
    ELSE LET r == rel[order[i]]
         IN  IF ~isConsideredToRun(r)
             THEN BuildCharts(order, i + 1, m)
             ELSE BuildCharts(order, i + 1,
                              AppendApp(m, <<r.Chart, r.Version>>, order[i]))

\* A plausible slip: a send that succeeds with the channel full.
SemHasRoomOffByOne == sem <= ResourcePool

\* line 239: the send on sem goes through when the channel is not full
SemHasRoom == sem < ResourcePool

\* The entry of c a probe writes on success: the empty string.
OkEntry == [msg |-> "", chart |-> "", version |-> "", apps |-> << >>]

\* validateChart(apps, chart, version, c), which is not part of state.go:
\* the entry it writes, "" when the chart is found and a diagnostic when not.
validateChart(apps, chart, version, found) ==
    IF found THEN OkEntry
    ELSE [msg |-> "chart not found", chart |-> chart, version |-> version,
          apps |-> apps]

\* A plausible slip: only the first diagnostic is logged.
drainLoggedFirstOnly(e) ==
    IF e.msg # "" /\ ~fail THEN Append(logged, e) ELSE logged

\* lines 254-257: what log.Error has received after the entry e is read
drainLogged(e) ==
    IF e.msg # "" THEN Append(logged, e) ELSE logged

\* a = "a" and its chart and version are the first of each: the names are
\* interchangeable.
InitCharts ==
    /\ rel \in {f \in [Labels -> [Chart : ChartNames, Version : Versions,
                                  disabled : BOOLEAN]] :
                    f["a"].Chart = "c1" /\ f["a"].Version = "v1"}
    /\ vpc = "group"
    /\ charts = << >>
    /\ curChart = ""
    /\ pending = {}
    /\ sem = 0
    /\ wg = 0
    /\ c = << >>
    /\ cClosed = FALSE
    /\ task = << >>
    /\ fail = FALSE
    /\ logged = << >>
    /\ drained = 0
    /\ result = ""
    /\ panicked = FALSE
    /\ fs = {}
    /\ CertIdle
    /\ TargetIdle
    /\ ValidateIdle
    /\ DefaultsIdle

\* lines 213-232
GroupCharts ==
    /\ vpc = "group"
    /\ \E order \in Orders(DOMAIN rel) :
          /\ charts' = BuildCharts(order, 1, << >>)
          /\ pending' = DOMAIN charts'
    /\ vpc' = "submit"
    /\ UNCHANGED <<rel, curChart, sem, wg, c, cClosed, task, fail, logged, drained, result,
                   panicked, fs, defaultsVars, certVars, targetVars, validateVars>>

\* lines 234-248: one round of the loops.  The versions of one chart follow
\* one another; the send on sem blocks while the pool is full.
Submit(p) ==
    /\ vpc = "submit"
    /\ p \in pending
    /\ (\E q \in pending : q[1] = curChart) => p[1] = curChart
    /\ SemHasRoom
    /\ sem' = sem + 1
    /\ wg' = wg + 1
    /\ task' = [q \in DOMAIN task \cup {p} |->
                  IF q = p
                  THEN [apps |-> Join(charts[p], ", "), chart |-> p[1],
                        version |-> p[2], at |-> "probe", reported |-> "",
                        started |-> IF p \in DOMAIN task THEN task[p].started + 1 ELSE 1]
                  ELSE task[q]]
    /\ pending' = pending \ {p}
    /\ curChart' = p[1]
    /\ UNCHANGED <<rel, vpc, charts, c, cClosed, fail, logged, drained, result, panicked,
                   fs, defaultsVars, certVars, targetVars, validateVars>>

\* line 246: the probe of the goroutine of p writes its entry; the send
\* blocks while c is full and panics when c is closed.
Probe(p) ==
    /\ p \in DOMAIN task
    /\ task[p].at = "probe"
    /\ cClosed \/ Len(c) < Capacity
    /\ \E found \in BOOLEAN :
          LET e == validateChart(task[p].apps, task[p].chart, task[p].version, found)
          IN  /\ c' = IF cClosed THEN c ELSE Append(c, e)
              /\ task' = [task EXCEPT ![p].at = "deferred", ![p].reported = e.msg]
    /\ panicked' = (panicked \/ cClosed)
    /\ UNCHANGED <<rel, vpc, charts, curChart, pending, sem, wg, cClosed, fail,
                   logged, drained, result, fs, defaultsVars, certVars, targetVars, validateVars>>

\* line 243: wg.Done()
WgDone(p) ==
    /\ p \in DOMAIN task
    /\ task[p].at = "deferred"
    /\ wg' = wg - 1
    /\ task' = [task EXCEPT ![p].at = "release"]
    /\ UNCHANGED <<rel, vpc, charts, curChart, pending, sem, c, cClosed, fail,
                   logged, drained, result, panicked, fs, defaultsVars, certVars, targetVars, validateVars>>

\* line 244: <-sem
SemRelease(p) ==
    /\ p \in DOMAIN task
    /\ task[p].at = "release"
    /\ sem > 0
    /\ sem' = sem - 1
    /\ task' = [task EXCEPT ![p].at = "exited"]
    /\ UNCHANGED <<rel, vpc, charts, curChart, pending, wg, c, cClosed, fail,
                   logged, drained, result, panicked, fs, defaultsVars, certVars, targetVars, validateVars>>

\* A plausible slip: the queue closed without waiting for the goroutines.
WaitGroupWaitNoBarrier ==
    /\ vpc = "submit"
    /\ pending = {}
    /\ vpc' = "close"
    /\ UNCHANGED <<rel, charts, curChart, pending, sem, wg, c, cClosed, task, fail,
                   logged, drained, result, panicked, fs, defaultsVars, certVars,
                   targetVars, validateVars>>

\* line 251: wg.Wait() returns once the loops are over and the counter is 0
WaitGroupWait ==
    /\ vpc = "submit"
    /\ pending = {}
    /\ wg = 0
    /\ vpc' = "close"
    /\ UNCHANGED <<rel, charts, curChart, pending, sem, wg, c, cClosed, task, fail,
                   logged, drained, result, panicked, fs, defaultsVars, certVars, targetVars, validateVars>>

\* line 252
CloseQueue ==
    /\ vpc = "close"
    /\ cClosed' = TRUE
    /\ vpc' = "drain"
    /\ UNCHANGED <<rel, charts, curChart, pending, sem, wg, c, task, fail, logged, drained,
                   result, panicked, fs, defaultsVars, certVars, targetVars, validateVars>>

\* lines 253-258: one round of the loop over c
Drain ==
    /\ vpc = "drain"
    /\ c # << >>
    /\ c' = Tail(c)
    /\ fail' = (fail \/ Head(c).msg # "")
    /\ logged' = drainLogged(Head(c))
    /\ drained' = drained + 1
    /\ UNCHANGED <<rel, vpc, charts, curChart, pending, sem, wg, cClosed, task,
                   result, panicked, fs, defaultsVars, certVars, targetVars, validateVars>>

\* lines 259-262: c is empty and closed, the loop is over
Return ==
    /\ vpc = "drain"
    /\ c = << >>
    /\ cClosed
    /\ result' = IF fail THEN "chart validation failed" ELSE "nil"
    /\ vpc' = "done"
    /\ UNCHANGED <<rel, charts, curChart, pending, sem, wg, c, cClosed, task, fail,
                   logged, drained, panicked, fs, defaultsVars, certVars, targetVars, validateVars>>

Pairs == {<<ch, v>> : ch \in ChartNames, v \in Versions}

NextCharts ==
    \/ GroupCharts
    \/ \E p \in Pairs : Submit(p)
    \/ \E p \in Pairs : Probe(p)
    \/ \E p \in Pairs : WgDone(p)
    \/ \E p \in Pairs : SemRelease(p)
    \/ WaitGroupWait
    \/ CloseQueue
    \/ Drain
    \/ Return

SpecCharts == InitCharts /\ [][NextCharts]_vars

\* The scheduler lets a goroutine that can take a step take one, and a probe
\* that has started writes its entry: as long as a step of the main goroutine
\* or of a started one is possible, a step is taken.
SpecChartsFair == SpecCharts /\ WF_vars(NextCharts)

\* The probes that reported a diagnostic.
FailedProbes == {p \in DOMAIN task : task[p].reported # ""}

\* C6: when validateReleaseCharts returns, every pair of the map charts had
\* its probe, every probe ran to its end (it wrote its entry and the
\* goroutine reached wg.Done) whatever the other probes reported, the number
\* of diagnostics logged is the number of probes that reported one, and the
\* error "chart validation failed" is returned if and only if there is such
\* a probe.
C6Theorem ==
    result # "" =>
        /\ DOMAIN task = DOMAIN charts
        /\ \A p \in DOMAIN task : task[p].at \in {"release", "exited"}
        /\ Len(logged) = Cardinality(FailedProbes)
        /\ result = "chart validation failed" <=> FailedProbes # {}

\* Three pairs, the probes of two of them failed and the third succeeded:
\* the error is returned and two diagnostics are logged.
C6Witness ==
    /\ result = "chart validation failed"
    /\ Cardinality(DOMAIN task) = 3
    /\ Cardinality(FailedProbes) = 2
    /\ Len(logged) = 2

\* The goroutines whose probe is executing, and those that hold a slot of
\* the pool (started, their token still in sem).
Executing == {p \in DOMAIN task : task[p].at = "probe"}
Holding   == {p \in DOMAIN task : task[p].at # "exited"}

\* C7: at every moment at most resourcePool probes execute, and every
\* goroutine that has started and not yet released its slot counts among
\* the at most resourcePool tokens of sem: a further one starts only after
\* a release.
C7Theorem ==
    /\ Cardinality(Executing) <= ResourcePool
    /\ Cardinality(Holding) = sem
    /\ sem <= ResourcePool

\* The pool is full with executing probes while a pair waits to be submitted.
C7Witness ==
    /\ Cardinality(Executing) = ResourcePool
    /\ vpc = "submit"
    /\ pending # {}

\* The releases considered to run that have the chart and version of p.
Sharing(p) ==
    {l \in DOMAIN rel : isConsideredToRun(rel[l]) /\ <<rel[l].Chart, rel[l].Version>> = p}

\* The names a list joined with ", " holds.
JoinedNames(joined) == {joined[i] : i \in {j \in 1..Len(joined) : j % 2 = 1}}

\* C8: a goroutine is started only for a pair (chart, version) that a
\* release considered to run has, once, with the names of exactly the
\* releases considered to run that have the pair, each once; and when
\* validateReleaseCharts returns every such pair has had its probe.
C8Theorem ==
    /\ \A p \in DOMAIN task :
          /\ Sharing(p) # {}
          /\ task[p].started = 1
          /\ task[p].chart = p[1] /\ task[p].version = p[2]
          /\ JoinedNames(task[p].apps) = Sharing(p)
          /\ Len(task[p].apps) = 2 * Cardinality(Sharing(p)) - 1
    /\ result # "" => \A p \in Pairs : Sharing(p) # {} => p \in DOMAIN task

\* Two releases considered to run share a pair and had one probe with both
\* names, a pair of a disabled release had none.
C8Witness ==
    /\ result # ""
    /\ \E p \in DOMAIN task : Cardinality(Sharing(p)) = 2
    /\ \E l \in DOMAIN rel :
          /\ rel[l].disabled
          /\ <<rel[l].Chart, rel[l].Version>> \notin DOMAIN task

\* The goroutines whose probe has written its entry.
Written == {p \in DOMAIN task : task[p].at # "probe"}

\* C15: no goroutine sends on the closed queue; the entries written so far,
\* in the queue or drained, are one for each goroutine whose probe is over;
\* when the queue is closed the submitting loops are over and every
\* goroutine has written; an entry is drained only after the close; and when
\* validateReleaseCharts returns the entries drained number the pairs
\* submitted, which are the pairs of the map charts.
C15Theorem ==
    /\ ~panicked
    /\ Len(c) + drained = Cardinality(Written)
    /\ cClosed => (pending = {} /\ Written = DOMAIN task /\ wg = 0)
    /\ drained > 0 => cClosed
    /\ result # "" =>
          /\ drained = Cardinality(DOMAIN task)
          /\ DOMAIN task = DOMAIN charts

\* Three pairs were submitted and three entries drained.
C15Witness ==
    /\ result # ""
    /\ Cardinality(DOMAIN task) = 3
    /\ drained = 3
    /\ c = << >>

\* C17: validateReleaseCharts returns in every interleaving, with fewer
\* pairs than the pool holds, as many, or more; and at every moment a step
\* is possible until it has returned: while pairs wait and the pool is full
\* a goroutine that holds a token can move on, and a probe that is to write
\* finds room in the queue, the pairs submitted never exceeding its
\* capacity.
C17Theorem ==
    /\ <>(result # "")
    /\ [](\A p \in DOMAIN task :
             task[p].at = "probe" => (~cClosed /\ Len(c) < Capacity))
    /\ []((vpc = "submit" /\ pending # {} /\ ~SemHasRoom) => Holding # {})
    /\ [](Cardinality(DOMAIN task) + Cardinality(pending) <= Capacity)

\* With more pairs than the pool holds, the third pair was submitted after
\* a release, and validateReleaseCharts returned.
C17Witness ==
    /\ result # ""
    /\ Cardinality(DOMAIN task) > ResourcePool
    /\ \A p \in DOMAIN task : task[p].at = "exited"

(***************************************************************************)
(* The defaults resolver.  The document holds the storage backend, the     *)
(* context name, the global hooks and history limit, and the releases     *)
(* Apps: document key -> [Name, Hooks, MaxHistory].                        *)
(***************************************************************************)
\* The most runs of setDefaults on one document.
MaxRuns == 2

defaultContextName == "default"

\* release.inheritHooks(s), which is not part of state.go: the release
\* without hooks of its own takes the global ones.
inheritHooks(r, d) ==
    IF DOMAIN r.Hooks = {} THEN [r EXCEPT !.Hooks = d.GlobalHooks] ELSE r

\* release.inheritMaxHistory(s), which is not part of state.go: the release
\* without a history limit of its own takes the global one.
inheritMaxHistory(r, d) ==
    IF r.MaxHistory = 0 THEN [r EXCEPT !.MaxHistory = d.GlobalMaxHistory] ELSE r

\* lines 82-84
defaultName(r, name) == IF r.Name = "" THEN [r EXCEPT !.Name = name] ELSE r

\* A plausible slip: the default backend published like a configured one.
setDefaultsPublishesDefault(d, e) ==
    LET backend == IF d.StorageBackend # "" THEN d.StorageBackend ELSE "secret"
    IN  [doc |-> [d EXCEPT
                    !.StorageBackend = backend,
                    !.Context = IF @ = "" THEN defaultContextName ELSE @,
                    !.Apps = [name \in DOMAIN d.Apps |->
                                inheritMaxHistory(
                                    inheritHooks(defaultName(d.Apps[name], name), d), d)]],
         env |-> backend]

\* setDefaults on the document d with HELM_DRIVER = e: the document and the
\* variable after it
setDefaults(d, e) ==
    [doc |-> [d EXCEPT
                !.StorageBackend = IF @ # "" THEN @ ELSE "secret",
                !.Context = IF @ = "" THEN defaultContextName ELSE @,
                !.Apps = [name \in DOMAIN d.Apps |->
                            inheritMaxHistory(
                                inheritHooks(defaultName(d.Apps[name], name), d), d)]],
     env |-> IF d.StorageBackend # "" THEN d.StorageBackend ELSE e]

OwnHooks == [h \in {"postInstall"} |-> "own.yaml"]

InitDefaults ==
    /\ sdoc \in [StorageBackend   : {"", "secret", "configmap"},
                 Context          : {"", "prod"},
                 GlobalHooks      : {<< >>, GoodHooks},
                 GlobalMaxHistory : {0, 5},
                 Apps             : [{"a", "b"} -> [Name       : {"", "web"},
                                                    Hooks      : {<< >>, OwnHooks},
                                                    MaxHistory : {0, 3}]]]
    /\ helmDriver \in {"", "configmap"}
    /\ snaps = <<[doc |-> sdoc, env |-> helmDriver]>>
    /\ fs = {}
    /\ CertIdle
    /\ TargetIdle
    /\ ValidateIdle
    /\ ChartsIdle

SetDefaults ==
    /\ Len(snaps) <= MaxRuns
    /\ LET res == setDefaults(sdoc, helmDriver)
       IN  /\ sdoc' = res.doc
           /\ helmDriver' = res.env
           /\ snaps' = Append(snaps, res)
    /\ UNCHANGED <<fs, certVars, targetVars, validateVars, chartVars>>

NextDefaults == SetDefaults

SpecDefaults == InitDefaults /\ [][NextDefaults]_vars

\* C12 as the spec states it: every further run of setDefaults leaves the
\* document (storage backend, context name, every release's name, hooks and
\* history limit) and the variable HELM_DRIVER as the first run left them.
C12Original ==
    \A k \in 3..Len(snaps) : snaps[k] = snaps[2]

\* C12, amended: every further run of setDefaults leaves the document as the
\* first run left it.  A run publishes the storage backend in HELM_DRIVER
\* only when the backend is set at its start: the first run on a document
\* without a storage backend leaves the variable as it was, and every later
\* run sets it to the default the first run stored.
C12Amended ==
    /\ \A k \in 3..Len(snaps) :
          /\ snaps[k].doc = snaps[2].doc
          /\ snaps[k].env = snaps[2].doc.StorageBackend
    /\ Len(snaps) >= 2 =>
          /\ snaps[2].env = IF snaps[1].doc.StorageBackend # ""
                            THEN snaps[1].doc.StorageBackend
                            ELSE snaps[1].env
          /\ snaps[2].doc.StorageBackend = IF snaps[1].doc.StorageBackend # ""
                                           THEN snaps[1].doc.StorageBackend
                                           ELSE "secret"

\* On a document without storage backend, context, names or own hooks and
\* limits, with HELM_DRIVER not set, the first run resolved every field and
\* left the variable, and the second run set the variable.
C12Witness ==
    /\ Len(snaps) = 3
    /\ snaps[1].doc.StorageBackend = "" /\ snaps[1].env = ""
    /\ snaps[1].doc.Context = ""
    /\ snaps[1].doc.GlobalHooks = GoodHooks /\ snaps[1].doc.GlobalMaxHistory = 5
    /\ \A l \in DOMAIN snaps[1].doc.Apps :
          snaps[1].doc.Apps[l] = [Name |-> "", Hooks |-> << >>, MaxHistory |-> 0]
    /\ snaps[2].env = ""
    /\ helmDriver = "secret"
    /\ sdoc.Apps["a"] = [Name |-> "a", Hooks |-> GoodHooks, MaxHistory |-> 5]

====
